---- MODULE Spec2Model ----
(***************************************************************************)
(* fdroid_downloader: the resolver, the metadata fetch and the resumable   *)
(* downloader of FdroidClient (src/src/fdroid_downloader/fdroid.py) driven *)
(* by the batch loop of cli.run (src/src/fdroid_downloader/cli.py).        *)
(*                                                                         *)
(* Text is modelled as a sequence of tokens: one token is one character    *)
(* ("/", "_", "a", "1") or a character run that the code never splits      *)
(* ("repo", ".apk", "https:", "f-droid.org", "&amp;").  File contents and  *)
(* response bodies are sequences of bytes.  The HTTP server, the search    *)
(* and package pages, the aria2c subprocess and the caller are the         *)
(* environment: their answers are the inputs of the actions.               *)
(***************************************************************************)
EXTENDS Integers, Sequences, FiniteSets, TLC

\* ------------------------------------------------------------------ bounds
MaxBatch == 3     \* longest list of packages handed to run
MaxBody  == 2     \* longest response body, in bytes
MaxFile  == 3     \* longest file the disk holds, in bytes
MaxChunk == 2     \* longest chunk iter_content yields (chunk_size, scaled)

Byte == {1, 2}
Absent == <<-1>>            \* a path that does not exist
NoneVal == <<>>             \* Python's None / a missing dict key (text-valued)

\* ------------------------------------------------------------ text helpers
RECURSIVE SeqsUpTo(_, _)
SeqsUpTo(S, n) ==
    IF n = 0 THEN {<<>>}
    ELSE LET shorter == SeqsUpTo(S, n - 1)
         IN shorter \cup {Append(s, x) : s \in {t \in shorter : Len(t) = n - 1}, x \in S}

Contents == SeqsUpTo(Byte, MaxFile)
Bodies   == SeqsUpTo(Byte, MaxBody)

\* s[i..] starts with needle
StartsAt(s, needle, i) ==
    /\ i + Len(needle) - 1 <= Len(s)
    /\ \A k \in 1..Len(needle) : s[i + k - 1] = needle[k]

\* Python's `needle in s` on strings
Contains(s, needle) == \E i \in 1..(Len(s) + 1) : StartsAt(s, needle, i)

\* Python's s.startswith(prefix)
StartsWith(s, prefix) == StartsAt(s, prefix, 1)

\* code point order of the characters that occur in package names
Rank(c) ==
    CASE c = "1" -> 49
      [] c = "2" -> 50
      [] c = "_" -> 95
      [] c = "a" -> 97
      [] c = "b" -> 98
      [] c = "c" -> 99
      [] OTHER -> 0

\* Python's s < t on strings
RECURSIVE LexLess(_, _)
LexLess(s, t) ==
    IF t = <<>> THEN FALSE
    ELSE IF s = <<>> THEN TRUE
    ELSE IF Rank(Head(s)) # Rank(Head(t)) THEN Rank(Head(s)) < Rank(Head(t))
    ELSE LexLess(Tail(s), Tail(t))

\* Python's sorted(set(xs))
RECURSIVE SortedSet(_)
SortedSet(S) ==
    IF S = {} THEN <<>>
    ELSE LET least == CHOOSE x \in S : \A y \in S \ {x} : LexLess(x, y)
         IN <<least>> \o SortedSet(S \ {least})

Elems(s) == {s[i] : i \in 1..Len(s)}

\* Python's s[:n]
Take(s, n) == IF Len(s) <= n THEN s ELSE SubSeq(s, 1, n)

\* Python's s.rsplit("/", maxsplit=1)[-1]: what follows the last "/"
RECURSIVE LastSegment(_)
LastSegment(s) ==
    IF \A i \in 1..Len(s) : s[i] # "/" THEN s
    ELSE LastSegment(Tail(s))

\* html.unescape on one token
UnescapeToken(c) == IF c = "&amp;" THEN "&" ELSE c

\* html.unescape
Unescape(s) == [i \in 1..Len(s) |-> UnescapeToken(s[i])]

\* str.strip() on the captured stderr text (" " is whitespace)
RECURSIVE LStrip(_)
LStrip(s) == IF s # <<>> /\ Head(s) = " " THEN LStrip(Tail(s)) ELSE s

RECURSIVE RStrip(_)
RStrip(s) ==
    IF s # <<>> /\ s[Len(s)] = " " THEN RStrip(SubSeq(s, 1, Len(s) - 1)) ELSE s

Strip(s) == RStrip(LStrip(s))

\* ------------------------------------------------- program constants, text
SampleSize == 5                                   \* results.packages[:5]
BaseUrl == <<"https:", "/", "/", "f-droid.org">>  \* base_url.rstrip("/")
DestDir == <<"out">>                              \* dest_dir of the caller
HREF  == "href=\""
QUOTE == "\""

\* raise_for_status raises for 400 <= status < 600
IsErrorStatus(s) == 400 <= s /\ s < 600

NoErr == [kind |-> "none", msg |-> <<>>]
HTTPError(s) == [kind |-> "HTTPError", msg |-> <<"status", s>>]
RequestException == [kind |-> "RequestException", msg |-> <<>>]
NotFoundQuery(q) == [kind |-> "ValueError", msg |-> <<"No packages found for query", q>>]
AmbiguousQuery(q, sample) ==
    [kind |-> "ValueError", msg |-> <<"Multiple packages matched query", q, sample>>]
NotFoundApk(p) == [kind |-> "ValueError", msg |-> <<"Unable to locate APK download for", p>>]
Aria2cFailed(rc, text) ==
    [kind |-> "RuntimeError", msg |-> <<"aria2c failed with exit code", rc, text>>]

\* ----------------------------------------------- pure functions of fdroid.py
PackagesPrefix == <<"/", "en", "/", "packages", "/">>

\* number of leading tokens of s other than stop
RECURSIVE RunLength(_, _)
RunLength(s, stop) ==
    IF s = <<>> \/ Head(s) = stop THEN 0 ELSE 1 + RunLength(Tail(s), stop)

\* re.findall(r'/en/packages/([^/]+)/', html)
RECURSIVE ExtractPackageIds(_)
ExtractPackageIds(html) ==
    IF html = <<>> THEN <<>>
    ELSE IF StartsWith(html, PackagesPrefix)
    THEN LET rest == SubSeq(html, Len(PackagesPrefix) + 1, Len(html))
             n == RunLength(rest, "/")
         IN IF n >= 1 /\ n < Len(rest)
            THEN <<SubSeq(rest, 1, n)>> \o ExtractPackageIds(SubSeq(rest, n + 2, Len(rest)))
            ELSE ExtractPackageIds(Tail(html))
    ELSE ExtractPackageIds(Tail(html))

\* variant: the ids as they stand on the page
SearchPackagesKeepAll(html) == ExtractPackageIds(html)

\* sorted(set(self._extract_package_ids(response.text)))
SearchPackages(html) == SortedSet(Elems(ExtractPackageIds(html)))

\* re.findall(r'href="([^"]+?\.apk)"', html)
RECURSIVE FindApkHrefs(_)
FindApkHrefs(html) ==
    IF html = <<>> THEN <<>>
    ELSE IF Head(html) = HREF
    THEN LET rest == Tail(html)
             n == RunLength(rest, QUOTE)
         IN IF n >= 2 /\ n < Len(rest) /\ rest[n] = ".apk"
            THEN <<SubSeq(rest, 1, n)>> \o FindApkHrefs(SubSeq(rest, n + 2, Len(rest)))
            ELSE FindApkHrefs(rest)
    ELSE FindApkHrefs(Tail(html))

\* the needle f"/repo/{package_name}_"
RepoNeedle(package_name) == <<"/", "repo", "/">> \o package_name \o <<"_">>

\* _extract_download_url: [ok, url] or [ok, err]
ExtractDownloadUrl(html, package_name) ==
    LET Matches(m) == Contains(m, RepoNeedle(package_name))
        kept == SelectSeq(FindApkHrefs(html), Matches)
        candidates == [i \in 1..Len(kept) |-> Unescape(kept[i])]
    IN IF candidates = <<>>
       THEN [ok |-> FALSE, err |-> NotFoundApk(package_name)]
       ELSE LET url == candidates[1]
            IN [ok |-> TRUE,
                url |-> IF StartsWith(url, <<"/">>) THEN BaseUrl \o url ELSE url]

\* variant: the query is not looked for among the candidates
ResolvePackageNoLiteral(package, results) ==
    IF results = <<>> THEN [ok |-> FALSE, err |-> NotFoundQuery(package)]
    ELSE IF Len(results) = 1 THEN [ok |-> TRUE, name |-> results[1]]
    ELSE [ok |-> FALSE, err |-> AmbiguousQuery(package, Take(results, SampleSize))]

\* variant: the error lists every candidate
ResolvePackageFullSample(package, results) ==
    IF results = <<>> THEN [ok |-> FALSE, err |-> NotFoundQuery(package)]
    ELSE IF package \in Elems(results) THEN [ok |-> TRUE, name |-> package]
    ELSE IF Len(results) = 1 THEN [ok |-> TRUE, name |-> results[1]]
    ELSE [ok |-> FALSE, err |-> AmbiguousQuery(package, results)]

\* _resolve_package after search_packages returned results: [ok, name] or [ok, err]
ResolvePackage(package, results) ==
    IF results = <<>> THEN [ok |-> FALSE, err |-> NotFoundQuery(package)]
    ELSE IF package \in Elems(results) THEN [ok |-> TRUE, name |-> package]
    ELSE IF Len(results) = 1 THEN [ok |-> TRUE, name |-> results[1]]
    ELSE [ok |-> FALSE, err |-> AmbiguousQuery(package, Take(results, SampleSize))]

\* ------------------------------------------------------------ environment
PkgA  == <<"a">>
PkgB  == <<"b">>
PkgAB == <<"a", "_", "b">>
PkgC  == <<"c">>

HrefA1 == <<"/", "repo", "/", "a", "_", "1", ".apk">>
HrefA2 == <<"/", "repo", "/", "a", "_", "2", ".apk">>
HrefB1 == <<"/", "repo", "/", "b", "_", "1", ".apk">>
HrefAbsA1 == BaseUrl \o HrefA1
HrefAB1 == <<"/", "repo", "/", "a", "_", "b", "_", "1", ".apk">>
HrefEscA1 == <<"/", "mirror", "&amp;", "/", "repo", "/", "a", "_", "1", ".apk">>
HrefTxtA1 == <<"/", "repo", "/", "a", "_", "1", ".txt">>

Anchor(href) == <<"<a ", HREF>> \o href \o <<QUOTE, ">">>
Link(package) == <<"<a ", HREF>> \o PackagesPrefix \o package \o <<"/", QUOTE, ">">>

\* package pages the server may answer with
PagesOne == { <<>>,
              Anchor(HrefA1),
              Anchor(HrefB1) \o Anchor(HrefAbsA1) \o Anchor(HrefA2) }
PagesTwo == { <<>>, Anchor(HrefA1) \o Anchor(HrefB1), Anchor(HrefB1) \o Anchor(HrefA1) }

\* search pages the server may answer with
SearchPagesOne == { <<>>,
                    Link(PkgA),
                    Link(PkgB) \o Link(PkgA) \o Link(PkgB),
                    Link(PkgB) \o Link(PkgAB) }
SearchPagesTwo == { <<>>, Link(PkgA), Link(PkgB) }

\* pages for the lookup of one package: search results of every shape (none,
\* one, repeated, several with and without the query, more than the sample),
\* package pages with other packages' files, relative, absolute and escaped
\* targets, and targets that are no .apk
RECURSIVE LinksOf(_)
LinksOf(names) == IF names = <<>> THEN <<>> ELSE Link(Head(names)) \o LinksOf(Tail(names))

ManyNames == << <<"c", "1">>, PkgB, PkgAB, PkgC, <<"a", "1">>, <<"b", "1">>, <<"c", "1">> >>

SearchPagesLookup ==
    { LinksOf(names) : names \in SeqsUpTo({PkgA, PkgB, PkgAB}, 2) } \cup { LinksOf(ManyNames) }

PagesLookup == { <<>>,
                 Anchor(HrefA1),
                 Anchor(HrefB1) \o Anchor(HrefA2) \o Anchor(HrefA1),
                 Anchor(HrefAB1) \o Anchor(HrefA1),
                 Anchor(HrefA1) \o Anchor(HrefAB1),
                 Anchor(HrefTxtA1) \o Anchor(HrefAbsA1),
                 Anchor(HrefEscA1) }

Statuses == {200, 206, 304, 404, 416, 503}
PageStatuses == {200, 404}
ExitCodes == {0, 1, -9}
StderrTexts == { <<>>, <<" ", "e", " ">> }

Files == { LastSegment(h) :
             h \in UNION { Elems(FindApkHrefs(p)) :
                             p \in PagesOne \cup PagesTwo \cup PagesLookup } }

\* the answer to a GET of a page: the request raised, or a status and a text
PageResponses(pages) ==
    { [exc |-> TRUE, status |-> 0, text |-> <<>>] }
      \cup { [exc |-> FALSE, status |-> s, text |-> t] : s \in PageStatuses, t \in pages }

\* the answer to the GET of the file: the request raised, or a status and a body
BodyResponses(statuses, bodies) ==
    { [exc |-> TRUE, status |-> 0, body |-> <<>>] }
      \cup { [exc |-> FALSE, status |-> s, body |-> b] : s \in statuses, b \in bodies }

\* the answers of a server that holds content and reads the Range header of
\* the request: the whole content with 200 (always possible: the range may
\* be ignored), the bytes from the offset with 206 when the offset is
\* before the end, 416 when it is at or past the end; or the request fails
\* (an exception, or an error status) without a body
ServerResponses(content, range) ==
    { [exc |-> TRUE, status |-> 0, body |-> <<>>],
      [exc |-> FALSE, status |-> 503, body |-> <<>>],
      [exc |-> FALSE, status |-> 200, body |-> content] }
      \cup IF range = NoneVal THEN {}
           ELSE IF range[2] < Len(content)
           THEN { [exc |-> FALSE, status |-> 206,
                   body |-> SubSeq(content, range[2] + 1, Len(content))] }
           ELSE { [exc |-> FALSE, status |-> 416, body |-> <<>>] }

\* what one run of aria2c does: exit code, stderr, and the file it leaves
\* at --dir/--out (Absent: it left none)
Aria2cRuns(texts, contents) ==
    [rc : ExitCodes, stderr : texts, left : contents \cup {Absent}]

BatchesOver(pkgs) == SeqsUpTo(pkgs, MaxBatch) \ {<<>>}

\* ------------------------------------------------------------------ state
VARIABLES
    pc,            \* where the process is: idle, resolve, page, fetch, aria2c,
                   \* request, stream, rename, returned, done (run returned),
                   \* failed (run raised)
    packages,      \* run's argument: the batch
    search,        \* run's argument
    idx,           \* position of the for loop in packages
    downloaded,    \* run's list of returned paths
    err,           \* the exception run raised
    package_name,  \* the resolved package of the current download_apk call
    download_url,  \* info.download_url
    destination,   \* the file name of destination inside dest_dir
    partialF,      \* disk: the content of <name>.partial for each file name
    finalF,        \* disk: the content of <name> for each file name
    fetcher,       \* which of the two fetch functions the call took
    req,           \* the body request of _download_with_requests and its answer
    proc,          \* the result of subprocess.run
    result,        \* what download_apk returned
    inv,           \* what the current download_apk call has done so far
    touched,       \* loop positions for which the run started an operation
    failedAt,      \* loop position whose download_apk raised (0: none)
    server         \* the bytes the server holds for the file (where it is fixed)

vars == <<pc, packages, search, idx, downloaded, err, package_name, download_url,
          destination, partialF, finalF, fetcher, req, proc, result, inv, touched,
          failedAt, server>>

runVars   == <<packages, search, downloaded>>
infoVars  == <<package_name, download_url, destination>>
fsVars    == <<partialF, finalF>>
fetchVars == <<fetcher, req, proc>>

NoReq  == [range |-> NoneVal, mode |-> "none", status |-> 0, body |-> <<>>, pos |-> 0,
           exc |-> FALSE]
NoProc == [rc |-> 0, stderr |-> <<>>, left |-> Absent]

\* the record of a download_apk call that has done nothing yet
NewInv(final) ==
    [nSearch |-> 0, nPage |-> 0, nBody |-> 0, nSub |-> 0,
     searchStatus |-> 0, pageStatus |-> 0, raised |-> FALSE, available |-> FALSE,
     ids |-> <<>>, results |-> <<>>, pageUrl |-> NoneVal, html |-> <<>>,
     partial0 |-> Absent, final0 |-> final]

\* the process has not started; the output directory is empty
InitProcess ==
    /\ pc = "idle"
    /\ packages = <<>>
    /\ search = FALSE
    /\ idx = 0
    /\ downloaded = <<>>
    /\ err = NoErr
    /\ package_name = NoneVal
    /\ download_url = NoneVal
    /\ destination = NoneVal
    /\ partialF = [f \in Files |-> Absent]
    /\ finalF = [f \in Files |-> Absent]
    /\ fetcher = "none"
    /\ req = NoReq
    /\ proc = NoProc
    /\ result = NoneVal
    /\ inv = NewInv([f \in Files |-> Absent])
    /\ touched = {}
    /\ failedAt = 0

Init == InitProcess /\ server = <<>>

\* f"{self._base_url}/en/packages/{package_name}/"
PackagePageUrl(name) == BaseUrl \o PackagesPrefix \o name \o <<"/">>

\* destination.stat().st_size if destination.exists() else 0
ResumeFrom(file) == IF file = Absent THEN 0 ELSE Len(file)

\* str(destination) = str(Path(dest_dir) / filename)
PathOf(filename) == DestDir \o <<"/">> \o filename

\* -------------------------------------------------- steps of the fetch code
\* variant: the Range header asks from the byte after the offset
RangeHeaderNext(resume_from) == <<"bytes=", resume_from + 1, "-">>

\* the headers dict of _download_with_requests: the Range value f"bytes={n}-"
RangeHeader(resume_from) == <<"bytes=", resume_from, "-">>

\* variant: the Range header always asks from byte 0
RequestHeadersFromZero(resume_from) ==
    IF resume_from # 0 THEN RangeHeader(0) ELSE NoneVal

\* variant: every request carries a Range header
RequestHeadersAlways(resume_from) == RangeHeader(resume_from)

\* headers: {"Range": f"bytes={resume_from}-"} if resume_from else {}
RequestHeaders(resume_from) ==
    IF resume_from # 0 THEN RangeHeader(resume_from) ELSE NoneVal

\* variant: 416 is never taken as "already complete"
RangeNotSatisfiableNever(status, resume_from) == FALSE

\* variant: 416 is taken as "already complete" also without a resume
RangeNotSatisfiableAlways(status, resume_from) == status = 416

\* if response.status_code == 416 and resume_from: return
RangeNotSatisfiable(status, resume_from) == status = 416 /\ resume_from # 0

\* variant: a resume appends whatever the status
OpenModeKeepAppend(resume_from, status) == IF resume_from # 0 THEN "ab" ELSE "wb"

\* mode: "ab" when resuming, unless the answer to the range request is 200
OpenMode(resume_from, status) ==
    IF resume_from # 0 /\ status # 200 THEN "ab" ELSE "wb"

\* variant: every open truncates
OpenedTruncating(file, mode) == <<>>

\* open(destination, mode): "wb" truncates or creates, "ab" keeps or creates
Opened(file, mode) == IF mode = "wb" \/ file = Absent THEN <<>> ELSE file

\* file_handle.write(chunk)
Written(file, chunk) == file \o chunk

\* variant: the partial file is copied, not renamed
ReplacedByCopy(partial, final) == [partial |-> partial, final |-> partial]

\* variant: a file found at the final name is kept
ReplacedKeepExisting(partial, final) ==
    IF final = Absent THEN [partial |-> Absent, final |-> partial]
    ELSE [partial |-> partial, final |-> final]

\* variant: the two files change places
ReplacedBySwap(partial, final) == [partial |-> final, final |-> partial]

\* partial_destination.replace(destination): [partial, final] after the rename
Replaced(partial, final) == [partial |-> Absent, final |-> partial]

\* if self._is_aria2c_available(): ... else: ...
FetchFunction(available) == IF available THEN "aria2c" ELSE "requests"

\* variant: only positive exit codes count as failure
SubprocessFailedPositive(returncode) == returncode > 0

\* if result.returncode != 0: raise
SubprocessFailed(returncode) == returncode # 0

\* variant: run catches the exception and goes on with the next package
RaiseAndContinue(e) ==
    /\ pc' = "returned"
    /\ err' = e
    /\ failedAt' = idx

\* an exception leaves download_apk and run: nothing catches it
Raise(e) ==
    /\ pc' = "failed"
    /\ err' = e
    /\ failedAt' = idx

\* ------------------------------------------------------------------ actions
\* cli.run up to the first download_apk call; a new process run may start
\* whenever the previous one has ended
StartRun(batch, s) ==
    /\ pc \in {"idle", "done", "failed"}
    /\ packages' = batch
    /\ search' = s
    /\ idx' = 1
    /\ downloaded' = <<>>
    /\ err' = NoErr
    /\ pc' = "resolve"
    /\ package_name' = NoneVal
    /\ download_url' = NoneVal
    /\ destination' = NoneVal
    /\ fetcher' = "none"
    /\ req' = NoReq
    /\ proc' = NoProc
    /\ result' = NoneVal
    /\ inv' = NewInv(finalF)
    /\ touched' = {}
    /\ failedAt' = 0
    /\ UNCHANGED fsVars
    /\ UNCHANGED server

\* variant: the name resolved by the previous call is kept
ResolveDirectKeepName ==
    /\ pc = "resolve"
    /\ ~search
    /\ pc' = "page"
    /\ UNCHANGED <<runVars, idx, err, package_name, download_url, destination, fsVars,
                   fetchVars, result, inv, touched, failedAt>>
    /\ UNCHANGED server

\* _resolve_package with search=False
ResolveDirect ==
    /\ pc = "resolve"
    /\ ~search
    /\ package_name' = packages[idx]
    /\ pc' = "page"
    /\ UNCHANGED <<runVars, idx, err, download_url, destination, fsVars, fetchVars,
                   result, inv, touched, failedAt>>
    /\ UNCHANGED server

\* _resolve_package with search=True: search_packages, then the choice
ResolveSearch(resp) ==
    /\ pc = "resolve"
    /\ search
    /\ inv' = [inv EXCEPT !.nSearch = @ + 1, !.searchStatus = resp.status,
                          !.raised = resp.exc,
                          !.ids = IF resp.exc \/ IsErrorStatus(resp.status)
                                  THEN <<>> ELSE ExtractPackageIds(resp.text),
                          !.results = IF resp.exc \/ IsErrorStatus(resp.status)
                                      THEN <<>> ELSE SearchPackages(resp.text)]
    /\ touched' = touched \cup {idx}
    /\ IF resp.exc
       THEN Raise(RequestException) /\ UNCHANGED package_name
       ELSE IF IsErrorStatus(resp.status)
       THEN Raise(HTTPError(resp.status)) /\ UNCHANGED package_name
       ELSE LET r == ResolvePackage(packages[idx], SearchPackages(resp.text))
            IN IF r.ok
               THEN /\ package_name' = r.name
                    /\ pc' = "page"
                    /\ UNCHANGED <<err, failedAt>>
               ELSE Raise(r.err) /\ UNCHANGED package_name
    /\ UNCHANGED <<runVars, idx, download_url, destination, fsVars, fetchVars, result>>
    /\ UNCHANGED server

\* _fetch_package_page, _extract_download_url, and download_apk up to the
\* choice of the fetch function
FetchPage(resp) ==
    /\ pc = "page"
    /\ touched' = touched \cup {idx}
    /\ IF resp.exc \/ IsErrorStatus(resp.status)
       THEN /\ Raise(IF resp.exc THEN RequestException ELSE HTTPError(resp.status))
            /\ inv' = [inv EXCEPT !.nPage = @ + 1, !.pageStatus = resp.status,
                                  !.raised = resp.exc, !.ids = <<>>, !.results = <<>>,
                                  !.pageUrl = PackagePageUrl(package_name)]
            /\ UNCHANGED <<download_url, destination>>
       ELSE LET r == ExtractDownloadUrl(resp.text, package_name)
            IN IF r.ok
               THEN /\ download_url' = r.url
                    /\ destination' = LastSegment(r.url)
                    /\ inv' = [inv EXCEPT !.nPage = @ + 1, !.pageStatus = resp.status,
                                          !.pageUrl = PackagePageUrl(package_name),
                                          !.ids = <<>>, !.results = <<>>, !.html = resp.text,
                                          !.partial0 = partialF[LastSegment(r.url)]]
                    /\ pc' = "fetch"
                    /\ UNCHANGED <<err, failedAt>>
               ELSE /\ Raise(r.err)
                    /\ inv' = [inv EXCEPT !.nPage = @ + 1, !.pageStatus = resp.status,
                                          !.pageUrl = PackagePageUrl(package_name),
                                          !.ids = <<>>, !.results = <<>>, !.html = resp.text]
                    /\ UNCHANGED <<download_url, destination>>
    /\ UNCHANGED <<runVars, idx, package_name, fsVars, fetchVars, result>>
    /\ UNCHANGED server

\* shutil.which("aria2c") at call time chooses the fetch function
ChooseFetch(available) ==
    /\ pc = "fetch"
    /\ fetcher' = FetchFunction(available)
    /\ pc' = IF FetchFunction(available) = "aria2c" THEN "aria2c" ELSE "request"
    /\ inv' = [inv EXCEPT !.available = available, !.html = <<>>]
    /\ UNCHANGED <<runVars, idx, err, infoVars, fsVars, req, proc, result, touched,
                   failedAt>>
    /\ UNCHANGED server

\* _download_with_aria2c.  aria2c keeps a file it finds at --out (--continue,
\* --allow-overwrite) and leaves one there when it exits 0
DownloadWithAria2c(run) ==
    /\ pc = "aria2c"
    /\ run.rc = 0 => run.left # Absent
    /\ partialF[destination] # Absent => run.left # Absent
    /\ proc' = run
    /\ partialF' = [partialF EXCEPT ![destination] = run.left]
    /\ inv' = [inv EXCEPT !.nSub = @ + 1]
    /\ touched' = touched \cup {idx}
    /\ IF SubprocessFailed(run.rc)
       THEN Raise(Aria2cFailed(run.rc, Strip(run.stderr)))
       ELSE pc' = "rename" /\ UNCHANGED <<err, failedAt>>
    /\ UNCHANGED <<runVars, idx, infoVars, finalF, fetcher, req, result>>
    /\ UNCHANGED server

\* _download_with_requests up to the open of the partial file
RequestBody(resp) ==
    /\ pc = "request"
    /\ LET file == partialF[destination]
           resume_from == ResumeFrom(file)
           mode == OpenMode(resume_from, resp.status)
       IN /\ (mode = "ab" /\ file # Absent) => Len(file) + Len(resp.body) <= MaxFile
          /\ req' = [range |-> RequestHeaders(resume_from), mode |-> mode,
                     status |-> resp.status, body |-> resp.body, pos |-> 0,
                     exc |-> resp.exc]
          /\ inv' = [inv EXCEPT !.nBody = @ + 1, !.raised = resp.exc]
          /\ touched' = touched \cup {idx}
          /\ IF resp.exc
             THEN Raise(RequestException) /\ UNCHANGED partialF
             ELSE IF RangeNotSatisfiable(resp.status, resume_from)
             THEN pc' = "rename" /\ UNCHANGED <<partialF, err, failedAt>>
             ELSE IF IsErrorStatus(resp.status)
             THEN Raise(HTTPError(resp.status)) /\ UNCHANGED partialF
             ELSE /\ partialF' = [partialF EXCEPT ![destination] = Opened(file, mode)]
                  /\ pc' = "stream"
                  /\ UNCHANGED <<err, failedAt>>
    /\ UNCHANGED <<runVars, idx, infoVars, finalF, fetcher, proc, result>>
    /\ UNCHANGED server

\* one non-empty chunk of iter_content is written
StreamChunk(k) ==
    /\ pc = "stream"
    /\ req.pos + k <= Len(req.body)
    /\ partialF' = [partialF EXCEPT ![destination] =
                      Written(@, SubSeq(req.body, req.pos + 1, req.pos + k))]
    /\ req' = [req EXCEPT !.pos = @ + k]
    /\ UNCHANGED <<pc, runVars, idx, err, infoVars, finalF, fetcher, proc, result, inv,
                   touched, failedAt>>
    /\ UNCHANGED server

\* variant: the rename runs also when the transfer broke (a finally block)
StreamFailThenRename ==
    /\ pc = "stream"
    /\ pc' = "rename"
    /\ inv' = [inv EXCEPT !.raised = TRUE]
    /\ req' = [req EXCEPT !.exc = TRUE]
    /\ UNCHANGED <<runVars, idx, err, failedAt, infoVars, fsVars, fetcher, proc, result,
                   touched>>
    /\ UNCHANGED server

\* variant: a broken transfer removes the partial file before raising
StreamFailCleanup ==
    /\ pc = "stream"
    /\ Raise(RequestException)
    /\ inv' = [inv EXCEPT !.raised = TRUE]
    /\ req' = [req EXCEPT !.exc = TRUE]
    /\ partialF' = [partialF EXCEPT ![destination] = Absent]
    /\ UNCHANGED <<runVars, idx, infoVars, finalF, fetcher, proc, result, touched>>
    /\ UNCHANGED server

\* variant: a broken transfer is retried with a new request
StreamFailRetry ==
    /\ pc = "stream"
    /\ pc' = "request"
    /\ inv' = [inv EXCEPT !.raised = TRUE]
    /\ req' = [req EXCEPT !.exc = TRUE]
    /\ UNCHANGED <<runVars, idx, err, failedAt, infoVars, fsVars, fetcher, proc, result,
                   touched>>
    /\ UNCHANGED server

\* the transfer breaks (or the process is interrupted) while streaming
StreamFail ==
    /\ pc = "stream"
    /\ Raise(RequestException)
    /\ inv' = [inv EXCEPT !.raised = TRUE]
    /\ req' = [req EXCEPT !.exc = TRUE]
    /\ UNCHANGED <<runVars, idx, infoVars, fsVars, fetcher, proc, result, touched>>
    /\ UNCHANGED server

\* iter_content is exhausted: _download_with_requests returns
StreamEnd ==
    /\ pc = "stream"
    /\ req.pos = Len(req.body)
    /\ pc' = "rename"
    /\ UNCHANGED <<runVars, idx, err, infoVars, fsVars, fetchVars, result, inv, touched,
                   failedAt>>
    /\ UNCHANGED server

\* partial_destination.replace(destination); return str(destination)
Rename ==
    /\ pc = "rename"
    /\ LET r == Replaced(partialF[destination], finalF[destination])
       IN /\ partialF' = [partialF EXCEPT ![destination] = r.partial]
          /\ finalF' = [finalF EXCEPT ![destination] = r.final]
    /\ result' = PathOf(destination)
    /\ pc' = "returned"
    /\ UNCHANGED <<runVars, idx, err, infoVars, fetchVars, inv, touched, failedAt>>
    /\ UNCHANGED server

\* downloaded.append(Path(path)); the next package, or run returns
LoopNext ==
    /\ pc = "returned"
    /\ downloaded' = Append(downloaded, result)
    /\ IF idx < Len(packages)
       THEN /\ idx' = idx + 1
            /\ pc' = "resolve"
            /\ package_name' = NoneVal
            /\ download_url' = NoneVal
            /\ destination' = NoneVal
            /\ fetcher' = "none"
            /\ req' = NoReq
            /\ proc' = NoProc
            /\ result' = NoneVal
            /\ inv' = NewInv(finalF)
       ELSE /\ pc' = "done"
            /\ UNCHANGED <<idx, infoVars, fetchVars, result, inv>>
    /\ UNCHANGED <<packages, search, err, fsVars, touched, failedAt>>
    /\ UNCHANGED server

\* ----------------------------------------------------------- specifications
\* repeated runs for one package: every path of one download, byte by byte
Next ==
    \/ \E s \in BOOLEAN : StartRun(<<PkgA>>, s)
    \/ ResolveDirect
    \/ \E resp \in PageResponses(SearchPagesOne) : ResolveSearch(resp)
    \/ \E resp \in PageResponses(PagesOne) : FetchPage(resp)
    \/ \E available \in BOOLEAN : ChooseFetch(available)
    \/ \E run \in Aria2cRuns(StderrTexts, Bodies) : DownloadWithAria2c(run)
    \/ \E resp \in BodyResponses(Statuses, Bodies) : RequestBody(resp)
    \/ \E k \in 1..MaxChunk : StreamChunk(k)
    \/ StreamFail
    \/ StreamEnd
    \/ Rename
    \/ LoopNext

Spec == Init /\ [][Next]_vars

\* the batch loop over two packages with a file each; short bodies
BodiesRun == {<<1>>}
StatusesRun == {200, 404}

NextRun ==
    \/ \E batch \in BatchesOver({PkgA, PkgB}), s \in BOOLEAN : StartRun(batch, s)
    \/ ResolveDirect
    \/ \E resp \in PageResponses(SearchPagesTwo) : ResolveSearch(resp)
    \/ \E resp \in PageResponses(PagesTwo) : FetchPage(resp)
    \/ \E available \in BOOLEAN : ChooseFetch(available)
    \/ \E run \in Aria2cRuns({<<>>}, BodiesRun) : DownloadWithAria2c(run)
    \/ \E resp \in BodyResponses(StatusesRun, BodiesRun) : RequestBody(resp)
    \/ \E k \in 1..MaxChunk : StreamChunk(k)
    \/ StreamFail
    \/ StreamEnd
    \/ Rename
    \/ LoopNext

SpecRun == Init /\ [][NextRun]_vars

\* the lookup of one package, by name or by search; the file then arrives
\* whole over the fallback path
NextLookup ==
    \/ \E q \in {PkgA, PkgB, PkgC}, s \in BOOLEAN : StartRun(<<q>>, s)
    \/ ResolveDirect
    \/ \E resp \in PageResponses(SearchPagesLookup) : ResolveSearch(resp)
    \/ \E resp \in PageResponses(PagesLookup) : FetchPage(resp)
    \/ ChooseFetch(FALSE)
    \/ \E resp \in BodyResponses({200}, BodiesRun) : RequestBody(resp)
    \/ \E k \in 1..MaxChunk : StreamChunk(k)
    \/ StreamEnd
    \/ Rename
    \/ LoopNext

SpecLookup == Init /\ [][NextLookup]_vars

\* repeated downloads of one file over the fallback path from a server
\* whose content is fixed and which answers as ServerResponses says
InitServer == InitProcess /\ server \in Contents

\* the body request, answered by the server from the headers it receives
RequestBodyFromServer ==
    /\ pc = "request"
    /\ \E resp \in ServerResponses(server, RequestHeaders(ResumeFrom(partialF[destination]))) :
          RequestBody(resp)

NextServer ==
    \/ StartRun(<<PkgA>>, FALSE)
    \/ ResolveDirect
    \/ \E resp \in PageResponses({Anchor(HrefA1)}) : FetchPage(resp)
    \/ ChooseFetch(FALSE)
    \/ RequestBodyFromServer
    \/ \E k \in 1..MaxChunk : StreamChunk(k)
    \/ StreamFail
    \/ StreamEnd
    \/ Rename
    \/ LoopNext

SpecServer == InitServer /\ [][NextServer]_vars

\* ------------------------------------------------------------------- claims
IsPrefix(p, t) == Len(p) <= Len(t) /\ SubSeq(t, 1, Len(p)) = p

\* the body request was sent with a Range header
Resuming == req.range # NoneVal

\* the fetch function of the current call returned normally: aria2c exited
\* 0, or the body request did not raise and either was answered 416 to a
\* resume or had the whole body of a status below 400 written
FetchCompleted ==
    \/ fetcher = "aria2c" /\ inv.nSub = 1 /\ proc.rc = 0
    \/ /\ fetcher = "requests" /\ inv.nBody = 1 /\ ~req.exc
       /\ \/ req.status = 416 /\ Resuming
          \/ req.status < 400 /\ req.pos = Len(req.body)

\* the call has returned its path (and run has not moved on)
Returned == pc \in {"returned", "done"}

\* C1: the final file changes only in the rename step of a call whose fetch
\* completed, where it receives the content of the partial file, which then
\* no longer exists; nothing else ever writes to the final path.
C1_FinalOnlyByRename ==
    [][\A f \in Files :
         finalF'[f] # finalF[f] =>
            /\ pc = "rename" /\ pc' = "returned"
            /\ f = destination
            /\ FetchCompleted
            /\ partialF[f] # Absent
            /\ finalF'[f] = partialF[f]
            /\ partialF'[f] = Absent]_vars

\* a final file written by a resumed download, in a later call that broke
\* mid-stream and left a partial file beside it
C1_Witness ==
    /\ pc = "failed" /\ fetcher = "requests" /\ req.exc /\ req.pos > 0
    /\ finalF[destination] # Absent /\ Len(finalF[destination]) >= 2
    /\ partialF[destination] # Absent

\* C2: when a call fails in the fetch (body request, streaming, or aria2c)
\* the partial file that existed before the call still exists, and when the
\* body was being appended its earlier bytes are still its prefix.
C2_PartialKeptOnFailure ==
    (pc = "failed" /\ fetcher # "none" /\ inv.partial0 # Absent) =>
        /\ partialF[destination] # Absent
        /\ (fetcher = "requests" /\ req.mode = "ab") =>
               IsPrefix(inv.partial0, partialF[destination])

\* a resumed transfer that broke after writing some bytes
C2_Witness ==
    /\ pc = "failed" /\ fetcher = "requests" /\ req.exc /\ req.pos > 0
    /\ inv.partial0 # Absent /\ Len(inv.partial0) > 0
    /\ Len(partialF[destination]) > Len(inv.partial0)

\* C3: a call on the fallback path that finds a non-empty partial file of k
\* bytes sends one request, with Range: bytes=k-; answered 206 it returns
\* dest_dir/<last URL segment>, the final file is the old partial bytes
\* followed by the body, and the partial file is gone.
C3_ResumeRoundTrip ==
    (fetcher = "requests" /\ inv.nBody >= 1 /\ inv.partial0 # Absent
       /\ Len(inv.partial0) > 0) =>
        /\ inv.nBody = 1
        /\ req.range = <<"bytes=", Len(inv.partial0), "-">>
        /\ (Returned /\ req.status = 206) =>
              /\ finalF[destination] = inv.partial0 \o req.body
              /\ partialF[destination] = Absent
              /\ result = DestDir \o <<"/">> \o LastSegment(download_url)

\* prefix and remainder both non-empty, joined in the final file
C3_Witness ==
    /\ pc = "returned" /\ fetcher = "requests" /\ req.status = 206
    /\ inv.partial0 # Absent /\ Len(inv.partial0) > 0 /\ Len(req.body) > 0
    /\ finalF[destination] = inv.partial0 \o req.body

\* C4: 416 to a resume: no error; before the rename the partial file holds
\* the bytes it had before the call, after it the final file holds them, the
\* partial file is gone and the path is returned.
C4_RangeNotSatisfiableCompletes ==
    (fetcher = "requests" /\ inv.nBody = 1 /\ ~req.exc /\ req.status = 416 /\ Resuming) =>
        /\ err = NoErr
        /\ pc \in {"rename", "returned", "done"}
        /\ pc = "rename" => partialF[destination] = inv.partial0
        /\ Returned =>
              /\ finalF[destination] = inv.partial0
              /\ partialF[destination] = Absent
              /\ result = PathOf(destination)

C4_Witness ==
    /\ pc = "returned" /\ fetcher = "requests" /\ req.status = 416 /\ Resuming
    /\ req.body # <<>>
    /\ finalF[destination] = inv.partial0

\* C5: 200 to a resume: the partial file is truncated before the body is
\* written, so it holds the body bytes received so far and the final file
\* is exactly the body.
C5_IgnoredRangeRewrites ==
    (fetcher = "requests" /\ inv.nBody = 1 /\ ~req.exc /\ req.status = 200 /\ Resuming) =>
        /\ pc \in {"stream", "rename"} =>
              partialF[destination] = SubSeq(req.body, 1, req.pos)
        /\ Returned => finalF[destination] = req.body

\* the fresh body differs from the stale bytes from its first byte on
C5_Witness ==
    /\ pc = "returned" /\ fetcher = "requests" /\ req.status = 200 /\ Resuming
    /\ req.body # <<>> /\ req.body[1] # inv.partial0[1]
    /\ finalF[destination] = req.body

\* C6: with aria2c available the call runs the subprocess once and sends no
\* body request; after exit 0 the final file is what aria2c left in the
\* partial file, the partial file is gone and the path is returned.
C6_Aria2cPath ==
    (inv.available /\ pc \notin {"resolve", "page", "fetch"}) =>
        /\ fetcher = "aria2c"
        /\ inv.nBody = 0
        /\ pc # "aria2c" => inv.nSub = 1
        /\ (Returned /\ proc.rc = 0) =>
              /\ finalF[destination] = proc.left
              /\ partialF[destination] = Absent
              /\ result = DestDir \o <<"/">> \o LastSegment(download_url)

C6_Witness ==
    /\ pc = "returned" /\ inv.available /\ proc.rc = 0
    /\ proc.left # <<>> /\ finalF[destination] = proc.left

\* C7: a non-zero exit code of aria2c makes the call fail with the
\* RuntimeError that carries the code and the (whitespace-stripped) stderr
\* text; no rename: the final files are as before the call and the partial
\* file is as aria2c left it.
C7_Aria2cFailure ==
    (fetcher = "aria2c" /\ inv.nSub = 1 /\ proc.rc # 0) =>
        /\ pc = "failed"
        /\ err.kind = "RuntimeError"
        /\ err.msg = <<"aria2c failed with exit code", proc.rc, Strip(proc.stderr)>>
        /\ finalF = inv.final0
        /\ partialF[destination] = proc.left

\* killed by a signal (negative code), stderr with surrounding blanks, and a
\* final file of an earlier call beside the partial file
C7_Witness ==
    /\ pc = "failed" /\ fetcher = "aria2c" /\ proc.rc < 0
    /\ proc.stderr # Strip(proc.stderr)
    /\ finalF[destination] # Absent /\ partialF[destination] # Absent

\* the error class of an accelerator failure
DownloadFailed == "RuntimeError"

\* an answer to the body request with an error status, other than 416 to a
\* resume
BodyErrorStatus ==
    /\ fetcher = "requests" /\ inv.nBody = 1 /\ ~req.exc
    /\ req.status \in 400..599
    /\ ~(req.status = 416 /\ Resuming)

\* C8 as stated: such an answer fails the call with DownloadFailed.
C8_Original ==
    BodyErrorStatus =>
        /\ pc = "failed"
        /\ err.kind = DownloadFailed
        /\ partialF[destination] = inv.partial0
        /\ finalF = inv.final0

\* C8 amended: such an answer fails the call with HTTPError carrying the
\* status; nothing is written to the partial file and nothing is renamed.
C8_HttpErrorFails ==
    BodyErrorStatus =>
        /\ pc = "failed"
        /\ err = [kind |-> "HTTPError", msg |-> <<"status", req.status>>]
        /\ partialF[destination] = inv.partial0
        /\ finalF = inv.final0

\* 416 to a request without Range, with a body the server sent along
C8_Witness ==
    /\ pc = "failed" /\ fetcher = "requests" /\ req.status = 416 /\ ~Resuming
    /\ req.body # <<>> /\ err.kind = "HTTPError"

\* C9: run takes the packages one at a time in order; when the call for
\* package i raises, run ends there: the final files are as they were when
\* that call began, those of the earlier packages exist, and no operation
\* was started for a later package.
C9_BatchAbortsInOrder ==
    /\ touched \subseteq 1..idx
    /\ pc \notin {"idle"} =>
          Len(downloaded) = (IF pc = "done" THEN idx ELSE idx - 1)
    /\ (~search /\ pc \notin {"idle", "resolve"}) => package_name = packages[idx]
    /\ failedAt # 0 =>
          /\ pc = "failed"
          /\ idx = failedAt
          /\ finalF = inv.final0
          /\ \A j \in 1..(failedAt - 1) : finalF[LastSegment(downloaded[j])] # Absent
          /\ touched \cap ((failedAt + 1)..Len(packages)) = {}

\* the second of three packages fails after the first one completed
C9_Witness ==
    /\ pc = "failed" /\ failedAt = 2 /\ Len(packages) = 3
    /\ packages[1] # packages[2]
    /\ fetcher # "none"
    /\ finalF[LastSegment(downloaded[1])] # Absent

\* an operation of the current call failed: a request raised, a page
\* request was answered with an error status, the body request was answered
\* with an error status other than 416 to a resume, or aria2c exited non-zero
OperationFailed ==
    \/ inv.raised
    \/ inv.nSearch = 1 /\ inv.searchStatus \in 400..599
    \/ inv.nPage = 1 /\ inv.pageStatus \in 400..599
    \/ BodyErrorStatus
    \/ inv.nSub = 1 /\ proc.rc # 0

\* C10: a call sends at most one search request (none without search), one
\* page request and one fetch attempt; every failed operation ends the call
\* with its error; a call that got past the body request without an error
\* had a status below 400 or 416 to a resume.
C10_NoRetryFailuresSurface ==
    /\ inv.nSearch <= 1 /\ inv.nPage <= 1 /\ inv.nBody + inv.nSub <= 1
    /\ ~search => inv.nSearch = 0
    /\ OperationFailed => (pc = "failed" /\ err # NoErr /\ failedAt = idx)
    /\ (fetcher = "requests" /\ inv.nBody = 1 /\ pc # "failed") =>
          (req.status < 400 \/ (req.status = 416 /\ Resuming))

\* a call that searched, fetched the page and got 200 to its range request
C10_Witness ==
    /\ pc = "done" /\ search /\ inv.nSearch = 1 /\ inv.nPage = 1 /\ inv.nBody = 1
    /\ req.status = 200 /\ Resuming /\ err = NoErr

\* the package argument of the current download_apk call
Query == packages[idx]

\* the current call searched and got candidates, and _resolve_package has
\* returned or raised; nothing else has happened in the call
SearchResolved ==
    /\ pc \in {"page", "failed"} /\ search
    /\ inv.nSearch = 1 /\ inv.nPage = 0 /\ ~OperationFailed

\* C11: with search, when the query itself is among the candidates the
\* call resolves to the query, whatever other candidates there are.
C11_LiteralQueryWins ==
    (SearchResolved /\ Query \in Elems(inv.results)) =>
        (pc = "page" /\ package_name = Query /\ err = NoErr)

\* the query resolved although the search had three candidates, the query
\* being neither the first nor the last of them
C11_Witness ==
    /\ SearchResolved /\ pc = "page" /\ Len(inv.results) >= 3
    /\ Query \in Elems(inv.results)
    /\ Query # inv.results[1] /\ Query # inv.results[Len(inv.results)]
    /\ package_name = Query

\* C12: with search, when the search page names exactly one package,
\* however often, the call resolves to that package, whether or not it is
\* the query.
C12_SingleCandidateWins ==
    (SearchResolved /\ Cardinality(Elems(inv.ids)) = 1) =>
        (pc = "page" /\ package_name = inv.ids[1] /\ err = NoErr)

\* the search page named one package twice, not the query, and the call
\* resolved to it
C12_Witness ==
    /\ SearchResolved /\ pc = "page" /\ Len(inv.ids) = 2
    /\ Cardinality(Elems(inv.ids)) = 1
    /\ Query # inv.ids[1] /\ package_name = inv.ids[1]

\* sample lists, in ascending order and without repetition, the least
\* min(SampleSize, number of names) names
IsLeastSample(sample, names) ==
    /\ Len(sample) <= SampleSize
    /\ Len(sample) = IF Cardinality(names) < SampleSize THEN Cardinality(names)
                     ELSE SampleSize
    /\ Elems(sample) \subseteq names
    /\ \A i \in 1..(Len(sample) - 1) : LexLess(sample[i], sample[i + 1])
    /\ \A x \in names \ Elems(sample) : \A i \in 1..Len(sample) : LexLess(sample[i], x)

\* C13: with search and an answered search request, the call fails in
\* resolution exactly when the search page names no package (error "no
\* packages found" with the query) or names several packages, none of them
\* the query (error "multiple packages matched" with the query and at most
\* SampleSize names, the least of the distinct names in ascending order);
\* the failed call has requested no package page and no file, and the
\* final files are those of its start.
C13_ResolveFailures ==
    SearchResolved =>
        LET names == Elems(inv.ids)
            none == names = {}
            several == Cardinality(names) > 1 /\ Query \notin names
        IN /\ (pc = "failed") <=> (none \/ several)
           /\ (pc = "failed" /\ none) => err = NotFoundQuery(Query)
           /\ (pc = "failed" /\ several) =>
                 /\ err.kind = "ValueError"
                 /\ err.msg[1] = "Multiple packages matched query"
                 /\ err.msg[2] = Query
                 /\ IsLeastSample(err.msg[3], names)
           /\ pc = "failed" =>
                 /\ inv.nPage = 0 /\ inv.nBody = 0 /\ inv.nSub = 0
                 /\ finalF = inv.final0 /\ failedAt = idx

\* the search page named six packages, not the query: the call failed
\* listing five of them; an earlier call had left a final file
C13_Witness ==
    /\ SearchResolved /\ pc = "failed"
    /\ Cardinality(Elems(inv.ids)) = SampleSize + 1
    /\ Len(err.msg[3]) = SampleSize
    /\ \E f \in Files : finalF[f] # Absent

\* a download_apk call is under way or has raised
InCall == pc \notin {"idle", "done"}

\* the call has a download URL: it got past the package page
HasUrl == pc \in {"fetch", "aria2c", "request", "stream", "rename", "returned"}

\* C14: without search, the call sends no search request and uses its
\* argument as the package name: the package page requested is the
\* argument's page and the download URL is one of the argument's files.
C14_DirectIsIdentity ==
    (InCall /\ ~search) =>
        /\ inv.nSearch = 0
        /\ pc # "resolve" => package_name = Query
        /\ inv.nPage = 1 => inv.pageUrl = BaseUrl \o PackagesPrefix \o Query \o <<"/">>
        /\ HasUrl => Contains(download_url, <<"/", "repo", "/">> \o Query \o <<"_">>)

\* a call without search for b returned after an earlier call had
\* downloaded a file of a
C14_Witness ==
    /\ pc = "returned" /\ ~search /\ Query = PkgB /\ package_name = PkgB
    /\ inv.nPage = 1 /\ inv.nBody = 1
    /\ \E f \in Files : finalF[f] # Absent /\ f # destination

\* the package a repository file belongs to: the file name
\* <package>_<version>.apk without its last two parts
FilePackage(url) ==
    LET f == LastSegment(url) IN SubSeq(f, 1, Len(f) - 3)

\* the package page of the current call was answered
PageAnswered == inv.nPage = 1 /\ ~inv.raised /\ ~IsErrorStatus(inv.pageStatus)

\* positions, among the .apk anchor targets of the page, of those that
\* contain /repo/<package_name>_
MatchingAnchors ==
    { i \in 1..Len(FindApkHrefs(inv.html)) :
        Contains(FindApkHrefs(inv.html)[i], <<"/", "repo", "/">> \o package_name \o <<"_">>) }

\* the URL of an anchor target: entities replaced, the base URL put before a
\* target that starts with /
UrlOfTarget(href) ==
    IF Head(href) = "/" THEN BaseUrl \o Unescape(href) ELSE Unescape(href)

\* the first matching anchor is chosen, and no match is an error
C15_FirstMatchingAnchor ==
    /\ pc = "fetch" =>
          /\ MatchingAnchors # {}
          /\ \E i \in MatchingAnchors :
                /\ \A j \in MatchingAnchors : i <= j
                /\ download_url = UrlOfTarget(FindApkHrefs(inv.html)[i])
    /\ (pc = "failed" /\ PageAnswered) =>
          (MatchingAnchors = {} /\ err = NotFoundApk(package_name))

\* C15: the download URL is the first anchor target of the page, in
\* document order, that ends in .apk and contains /repo/<package_name>_,
\* and it is a file of that package, never of another package linked on
\* the page; a page without such an anchor fails the call with "unable to
\* locate APK download".
C15_OwnApkOnly ==
    /\ C15_FirstMatchingAnchor
    /\ pc = "fetch" => FilePackage(download_url) = package_name

\* the page of package a links a file of package a_b before a's own file,
\* and the call for a is about to download the file of a_b
C15_Witness ==
    /\ pc = "fetch" /\ package_name = PkgA
    /\ inv.html = Anchor(HrefAB1) \o Anchor(HrefA1)
    /\ download_url = BaseUrl \o HrefAB1

\* the download state of a file, from its partial and final files: 0
\* NOT_STARTED (neither exists), 1 IN_PROGRESS (the partial file exists),
\* 2 COMPLETE (the final file exists, the partial file does not)
DownloadState(partial, final) ==
    IF partial # Absent THEN 1 ELSE IF final # Absent THEN 2 ELSE 0

\* C16 as stated: no step of any call moves the download state of a file
\* backwards.
C16_Original ==
    [][\A f \in Files :
          DownloadState(partialF'[f], finalF'[f]) >= DownloadState(partialF[f], finalF[f])]_vars

\* C16: the download state of a file moves backwards only from COMPLETE
\* to IN_PROGRESS, when a later call for the file starts its fetch (the
\* final file stays as it is); a partial file disappears only in the
\* rename that makes it the final file, a final file never disappears, and
\* a call that returned left its file COMPLETE.
C16_StateMoves ==
    [][/\ \A f \in Files :
            /\ DownloadState(partialF'[f], finalF'[f]) < DownloadState(partialF[f], finalF[f]) =>
                  /\ DownloadState(partialF[f], finalF[f]) = 2
                  /\ DownloadState(partialF'[f], finalF'[f]) = 1
                  /\ pc \in {"request", "aria2c"} /\ f = destination
                  /\ inv.nBody + inv.nSub = 0
                  /\ finalF'[f] = finalF[f]
            /\ (partialF[f] # Absent /\ partialF'[f] = Absent) =>
                  (pc = "rename" /\ f = destination /\ finalF'[f] = partialF[f])
            /\ finalF[f] # Absent => finalF'[f] # Absent
       /\ pc' = "returned" =>
             DownloadState(partialF'[destination'], finalF'[destination']) = 2]_vars

\* a later call for a file whose final file exists is streaming into a new
\* partial file
C16_Witness ==
    /\ pc = "stream" /\ inv.final0[destination] # Absent
    /\ partialF[destination] # Absent /\ inv.partial0 = Absent
    /\ finalF[destination] = inv.final0[destination]

\* the size of the partial file at the start of the current call, 0 without one
Offset == IF inv.partial0 = Absent THEN 0 ELSE Len(inv.partial0)

\* the current call sent its body request
BodyRequested == fetcher = "requests" /\ inv.nBody = 1

\* the current call has just opened the partial file
JustOpened == BodyRequested /\ pc = "stream" /\ req.pos = 0

\* C17 as stated: the request carries Range from the offset and the file
\* is opened for append exactly when the partial file has bytes; otherwise
\* the request is plain and the file is opened for truncate-write.
C17_Original ==
    /\ BodyRequested =>
          req.range = (IF Offset > 0 THEN <<"bytes=", Offset, "-">> ELSE NoneVal)
    /\ JustOpened =>
          /\ req.mode = (IF Offset > 0 THEN "ab" ELSE "wb")
          /\ partialF[destination] = (IF Offset > 0 THEN inv.partial0 ELSE <<>>)

\* C17: the request carries Range from the size of the partial file when
\* that file has bytes, and no Range header otherwise (also for a partial
\* file of size 0); the file is opened, only after an answer below 400, for
\* append when the request carried Range and the answer is not 200, and
\* for truncate-write otherwise.
C17_ResumeDecision ==
    /\ BodyRequested =>
          /\ req.range = (IF Offset > 0 THEN <<"bytes=", Offset, "-">> ELSE NoneVal)
          /\ pc = "stream" => (~req.exc /\ req.status < 400)
    /\ JustOpened =>
          /\ req.mode = (IF Offset > 0 /\ req.status # 200 THEN "ab" ELSE "wb")
          /\ partialF[destination] = (IF req.mode = "ab" THEN inv.partial0 ELSE <<>>)

\* a call that found two bytes sent Range from 2, was answered 206 and has
\* opened the file for append
C17_Witness ==
    /\ JustOpened /\ Offset = 2 /\ req.range = <<"bytes=", 2, "-">>
    /\ req.status = 206 /\ req.mode = "ab" /\ partialF[destination] = inv.partial0

\* a call that found a partial file of size 0 sent a plain request and has
\* opened the file for truncate-write
C17_EmptyPartialIsFresh ==
    /\ JustOpened /\ inv.partial0 = <<>> /\ req.range = NoneVal /\ req.mode = "wb"

\* C18: the final files change in the rename step only, which puts the
\* partial file of the call at the final name whatever was there; every
\* other step leaves them alone, so a call that has raised has the final
\* files of its start.
C18_FinalFrame ==
    [][/\ pc = "rename" =>
             /\ pc' = "returned"
             /\ partialF[destination] # Absent
             /\ finalF' = [finalF EXCEPT ![destination] = partialF[destination]]
       /\ pc # "rename" => finalF' = finalF
       /\ pc' = "failed" => finalF' = inv'.final0]_vars

\* a call failed in mid-stream; the final file of an earlier download is
\* there, with other bytes than the partial file
C18_Witness ==
    /\ pc = "failed" /\ inv.nBody = 1 /\ req.pos > 0 /\ req.pos < Len(req.body)
    /\ finalF[destination] # Absent /\ finalF = inv.final0
    /\ partialF[destination] # Absent /\ partialF[destination] # finalF[destination]

\* a call returned after its rename replaced a final file with other bytes
C18_Replaced ==
    /\ pc = "returned" /\ inv.final0[destination] # Absent
    /\ finalF[destination] # inv.final0[destination]

\* C19: downloading over the fallback path from a server with fixed
\* content, every partial file is a prefix of the server's content and
\* every final file equals it; so does the file of a call that returned,
\* also when 416 ended its fetch.
C19_PartialIsPrefix ==
    /\ \A f \in Files :
          /\ partialF[f] # Absent => IsPrefix(partialF[f], server)
          /\ finalF[f] # Absent => finalF[f] = server
    /\ pc = "returned" => (finalF[destination] = server /\ partialF[destination] = Absent)

\* a call found the whole content in the partial file, was answered 416
\* and returned with the final file equal to the content
C19_Witness ==
    /\ pc = "returned" /\ req.status = 416 /\ Len(server) >= 2
    /\ inv.partial0 = server /\ finalF[destination] = server

\* a call resumed after the first byte, was answered 206 with the rest and
\* returned
C19_Resumed ==
    /\ pc = "returned" /\ req.status = 206 /\ Len(server) = MaxFile
    /\ Len(inv.partial0) = 1 /\ finalF[destination] = server

\* a call that failed on the fallback path after its body request, not
\* having been answered 200 to a range request, has a partial file at least
\* as long as the one it found
FailedKeepsOffset ==
    (pc = "failed" /\ BodyRequested /\ ~(Resuming /\ req.status = 200)) =>
        ResumeFrom(partialF[destination]) >= Offset

\* C20: the size of a partial file decreases only in the truncating open
\* of a call that sent a range request and was answered 200 (leaving the
\* accelerator and the rename of a successful call aside); a call that
\* fails on the fallback path without such an answer leaves the partial
\* file at least as long as it found it.
C20_OffsetNeverDecreases ==
    [][/\ \A f \in Files :
            ResumeFrom(partialF'[f]) < ResumeFrom(partialF[f]) =>
               \/ pc = "rename"
               \/ pc = "aria2c"
               \/ /\ pc = "request" /\ pc' = "stream" /\ f = destination
                  /\ req'.range # NoneVal /\ req'.status = 200
                  /\ partialF'[f] = <<>>
       /\ FailedKeepsOffset']_vars

\* a call resumed from one byte, was answered 206, appended and failed in
\* mid-stream: the partial file has grown
C20_Witness ==
    /\ pc = "failed" /\ BodyRequested /\ req.status = 206 /\ Offset = 1
    /\ req.pos > 0 /\ req.pos < Len(req.body)
    /\ Len(partialF[destination]) = Offset + req.pos

\* a call that found two bytes was answered 200 to its range request and
\* failed with a shorter partial file
C20_Shrunk ==
    /\ pc = "failed" /\ BodyRequested /\ Resuming /\ req.status = 200
    /\ Offset = 2 /\ Len(partialF[destination]) < Offset

====
